---- MODULE Spec2Model ----
(***************************************************************************)
(* Model of the retrieval-and-fallback pipeline of src/pages/api/chat.ts:  *)
(* the chat handler, crawlWebsite, fetchMultiplePages and the helpers they *)
(* use.  Strings are sequences of one-token strings; the token "https://"  *)
(* stands for the scheme prefix, "\n" for a newline, " " for a blank.      *)
(***************************************************************************)
EXTENDS Integers, Sequences, FiniteSets, TLC

\* ------------------------------------------------------------------ bounds
MaxBudget == 3          \* largest page budget of a direct crawlWebsite call
MaxPageFailures == 2    \* page failures injected per run
MaxDocs == 9            \* largest number of passages the index returns
MaxTextLen == 1801      \* longest cleaned text given to the chunk loop
MaxWindows == 40        \* most iterations of the chunk loop followed

\* ------------------------------------------------------- program constants
HandlerMaxPages == 50
SourceDocsLimit == 5
chunkSize == 1000
overlap == 200
MinChunkLen == 100
MinPageLen == 50
MinWordLen == 1
MinContentLen == 100

\* ------------------------------------------------------------ string tools
Null == <<>>

Min(a, b) == IF a < b THEN a ELSE b

\* F applied to the value of x: x is evaluated once, before F
Call(F(_), x) == CHOOSE r \in {F(v) : v \in {x}} : TRUE

\* String.prototype.startsWith
StartsWith(s, p) == Len(p) <= Len(s) /\ SubSeq(s, 1, Len(p)) = p

\* String.prototype.includes
Includes(s, w) == \E i \in 1..(Len(s) - Len(w) + 1) : SubSeq(s, i, i + Len(w) - 1) = w

\* index of the first occurrence of token c in s, Len(s)+1 when there is none
IndexOf(s, c) ==
  IF \E i \in 1..Len(s) : s[i] = c
  THEN CHOOSE i \in 1..Len(s) : s[i] = c /\ \A j \in 1..(i - 1) : s[j] # c
  ELSE Len(s) + 1

\* ---------------------------------------------------------------- WHATWG URL
Scheme == "https://"
HostChar == {"a", "b", "."}

\* number of host tokens that follow the scheme token of s
HostLen(s) ==
  CHOOSE n \in 0..(Len(s) - 1) :
    /\ \A k \in 2..(n + 1) : s[k] \in HostChar
    /\ (n + 2 <= Len(s) => s[n + 2] \notin HostChar)

IsAbsolute(s) == Len(s) >= 1 /\ s[1] = Scheme

\* href of an absolute URL string: an empty path becomes "/"; Null when the
\* parser throws (no host)
AbsHref(s) ==
  IF HostLen(s) = 0 THEN Null
  ELSE LET auth == SubSeq(s, 1, HostLen(s) + 1)
           rest == SubSeq(s, HostLen(s) + 2, Len(s))
       IN IF rest # <<>> /\ rest[1] = "/" THEN auth \o rest
          ELSE auth \o <<"/">> \o rest

\* new URL(url, base).href where base is an origin string, or Null for the
\* one-argument constructor; Null when the constructor throws
Href(url, base) ==
  IF IsAbsolute(url) THEN AbsHref(url)
  ELSE IF base = Null THEN Null
  ELSE IF url # <<>> /\ url[1] = "/" THEN base \o url
  ELSE base \o <<"/">> \o url

\* new URL(url).origin : scheme and host; Null when the constructor throws
OriginOf(url) ==
  IF IsAbsolute(url) /\ HostLen(url) > 0 THEN SubSeq(url, 1, HostLen(url) + 1)
  ELSE Null

\* s.split("#")[0]
StripHash(s) == SubSeq(s, 1, IndexOf(s, "#") - 1)

\* s.replace(/\/$/, "")
StripTrailingSlash(s) ==
  IF s # <<>> /\ s[Len(s)] = "/" THEN SubSeq(s, 1, Len(s) - 1) ELSE s

\* normalizeUrl of crawlWebsite
normalizeUrl(url, origin) ==
  Call(LAMBDA href : IF href = Null THEN Null
                     ELSE Call(StripTrailingSlash, StripHash(href)),
       Href(url, origin))

\* ----------------------------------------------------------------- the web
\* Seed origin "https://a"; host "a.b" begins with the seed's origin string;
\* host "b" is unrelated.
A == <<Scheme, "a">>
AB == <<Scheme, "a", ".", "b">>
B == <<Scheme, "b">>

Sites == {"plain", "hostile", "small"}

\* href attributes of the anchors of the page shown at location url
Anchors(site, url) ==
  IF site = "plain" THEN
    CASE url = A -> << <<"/", "p">>, <<"/", "q", "/">>, <<"#", "f">>,
                       A \o <<"/">>, B \o <<"/", "x">> >>
      [] url = A \o <<"/", "p">> -> << <<"/">>, <<"/", "p", "#", "f">>,
                                       <<"/", "r">>, <<"/", "q">> >>
      [] url = A \o <<"/", "q">> -> << <<"/", "p">>, <<"/", "s">>, <<"/", "r">> >>
      [] url = A \o <<"/", "r">> -> << <<"/", "p", "/", "/">>, <<"javascript:", "x">> >>
      [] OTHER -> << >>
  ELSE IF site = "small" THEN
    CASE url = A -> << <<"/", "p">>, <<"/", "p", "/">> >>
      [] url = A \o <<"/", "p">> -> << <<"/">>, <<"#", "f">> >>
      [] OTHER -> << >>
  ELSE
    CASE url = A -> << AB \o <<"/">>, <<"/", "p">>, <<Scheme>> >>
      [] url = AB -> << <<"/", "x">>, A \o <<"/", "p">> >>
      [] url = A \o <<"/", "p">> -> << AB \o <<"/", "x", "#", "f">>, B >>
      [] OTHER -> << >>

\* length of the cleaned text of the page at url
CleanedLen(site, url) ==
  CASE url = A -> 1700
    [] url = A \o <<"/", "p">> -> 850
    [] url = A \o <<"/", "q">> -> 40
    [] url = A \o <<"/", "r">> -> 100
    [] url = AB -> 901
    [] OTHER -> 0

\* ------------------------------------------------------------------- state
VARIABLES
  caller,        \* "handler": crawlWebsite called by the chat handler; "direct": called on its own
  site,          \* the web the browser sees
  req,           \* the request: method, question, history
  pc,            \* position of the request / call
  responses,     \* responses sent with res.status(..).json(..), in order
  failure,       \* stage whose exception reached the handler's catch, "none" if none
  indexQueries,  \* calls of retriever.invoke
  genCalls,      \* calls of model.invoke
  scoredDocs,    \* scoredDocs of the handler
  relevantDocs,  \* relevantDocs of the handler
  contextText,   \* contextText of the handler
  answer,        \* answer of the handler
  webContext,    \* webContext of the handler
  crawlCalls,    \* calls of crawlWebsite
  fetchCalls,    \* calls of fetchMultiplePages
  launches,      \* browsers launched
  closes,        \* browsers closed
  openPages,     \* pages opened with newPage and not closed
  pageFailures,  \* page failures so far
  startUrl,      \* crawlWebsite: startUrl
  maxPages,      \* crawlWebsite: maxPages
  origin,        \* crawlWebsite: origin
  visited,       \* crawlWebsite: visited, in insertion order
  toVisit,       \* crawlWebsite: toVisit
  last,          \* what the latest per-page step did: outcome and URI
  crawlResult,   \* value returned by crawlWebsite
  pushed,        \* crawlWebsite: every entry put into toVisit, in order
  gotos,         \* crawlWebsite: every URI given to page.goto, in order
  uniqueUrls,    \* fetchMultiplePages: the URLs not yet processed
  documents,     \* fetchMultiplePages: documents
  cleanedText,   \* chunk loop: length of cleanedText
  chunkConf,     \* chunk loop: the values of chunkSize and overlap
  chunkI,        \* chunk loop: i
  windows,       \* chunk loop: iterations entered so far
  dom,           \* text extraction: the page, its content elements and its body
  pageText,      \* text extraction: pageText
  parked         \* the state of the other request in flight while this one runs

vars == <<caller, site, req, pc, responses, failure, indexQueries, genCalls,
          scoredDocs, relevantDocs, contextText, answer, webContext,
          crawlCalls, fetchCalls, launches, closes, openPages, pageFailures,
          startUrl, maxPages, origin, visited, toVisit, last, crawlResult,
          pushed, gotos, uniqueUrls, documents, cleanedText, chunkConf, chunkI,
          windows, dom, pageText, parked>>

handlerVars == <<req, indexQueries, genCalls, scoredDocs, relevantDocs,
                 contextText, answer, webContext>>
crawlVars == <<startUrl, maxPages, origin, visited, toVisit, crawlResult>>
fetchVars == <<uniqueUrls, documents>>
chunkVars == <<cleanedText, chunkConf, chunkI, windows>>
logVars == <<pushed, gotos>>
extractVars == <<dom, pageText>>

\* ------------------------------------------------------------ crawlWebsite
Range(s) == {s[i] : i \in 1..Len(s)}

\* Set.prototype.add on a set kept in insertion order
SetAdd(s, x) == IF x \in Range(s) THEN s ELSE Append(s, x)

\* the page.evaluate callback of crawlWebsite at location loc: every href
\* attribute that is not a javascript: link, made absolute against
\* window.location.origin, unparsable ones dropped
ExtractLinks(st, loc) ==
  Call(LAMBDA attrs :
         SelectSeq([i \in 1..Len(attrs) |-> Href(attrs[i], OriginOf(loc))],
                   LAMBDA h : h # Null),
       SelectSeq(Anchors(st, loc),
                 LAMBDA h : h # <<>> /\ ~StartsWith(h, <<"javascript:">>)))

\* the origin test of the enqueue condition
SameOrigin(nUrl, o) == StartsWith(nUrl, o)

\* the enqueue condition of the link loop
ShouldEnqueue(nUrl, o, vis, q) ==
  /\ nUrl # Null
  /\ SameOrigin(nUrl, o)
  /\ nUrl \notin Range(vis)
  /\ nUrl \notin Range(q)

RECURSIVE EnqueueFront(_, _, _, _)
EnqueueFront(links, o, vis, q) ==
  IF links = <<>> THEN q
  ELSE Call(LAMBDA nUrl :
              Call(LAMBDA q1 : EnqueueFront(Tail(links), o, vis, q1),
                   IF ShouldEnqueue(nUrl, o, vis, q) THEN <<nUrl>> \o q ELSE q),
            normalizeUrl(Head(links), o))

\* the link loop: toVisit after the links were examined in order
RECURSIVE Enqueue(_, _, _, _)
Enqueue(links, o, vis, q) ==
  IF links = <<>> THEN q
  ELSE Call(LAMBDA nUrl :
              Call(LAMBDA q1 : Enqueue(Tail(links), o, vis, q1),
                   IF ShouldEnqueue(nUrl, o, vis, q) THEN Append(q, nUrl) ELSE q),
            normalizeUrl(Head(links), o))

LoopGuardNoBudget(q, vis, budget) == Len(q) > 0

LoopGuardOffByOne(q, vis, budget) == Len(q) > 0 /\ Len(vis) < budget - 1

\* the while condition
LoopGuard(q, vis, budget) == Len(q) > 0 /\ Len(vis) < budget

ShiftKeep(q) == q

\* toVisit after toVisit.shift()
Shift(q) == Tail(q)

CatchCrawlForget(vis, nUrl) == vis

\* the catch block of the per-page step
CatchCrawl(vis, nUrl) == SetAdd(vis, nUrl)

\* outcomes of one page: "ok"; newPage throws; goto or evaluate throws
\* (navigation timeout, render error); page.close throws
PageOutcomes == {"ok", "newPage", "goto", "close"}

Outcomes == IF pageFailures < MaxPageFailures THEN PageOutcomes ELSE {"ok"}

Response(status, text, docs) ==
  [status |-> status, text |-> text, sourceDocuments |-> docs]

Send500Partial(cause) ==
  /\ failure' = cause
  /\ responses' = Append(responses, Response(200, answer, relevantDocs))
  /\ pc' = "done"

Send500UnlessIndex(cause) ==
  IF cause = "index"
  THEN /\ pc' = "crawl"
       /\ UNCHANGED <<failure, responses>>
  ELSE /\ failure' = cause
       /\ responses' = Append(responses, Response(500, <<"error">>, <<>>))
       /\ pc' = "done"

\* lines 303-306: the catch block of the handler
Send500(cause) ==
  /\ failure' = cause
  /\ responses' = Append(responses, Response(500, <<"error">>, <<>>))
  /\ pc' = "done"

\* an exception leaves crawlWebsite or fetchMultiplePages: the handler's
\* catch answers 500, a direct caller sees the exception
Throw(cause) ==
  IF caller = "handler"
  THEN Send500(cause)
  ELSE /\ failure' = cause
       /\ responses' = responses
       /\ pc' = "thrown"

TryCoversGotoOnly(out) == out = "goto"

\* the statements inside the try block of a per-page step (lines 60-95 and
\* 120-174): newPage, goto and evaluate, close
TryCovers(out) == out \in {"newPage", "goto", "close"}

SkipInvalidOnly(nUrl, vis) == nUrl = Null

\* line 53: !normalizedUrl || visited.has(normalizedUrl)
Skip(nUrl, vis) == nUrl = Null \/ nUrl \in Range(vis)

\* lines 21-47: launch the browser, set up the frontier
CrawlLaunch ==
  /\ pc = "crawl"
  /\ crawlCalls' = crawlCalls + 1
  /\ UNCHANGED <<parked, chunkVars, extractVars, caller, site, handlerVars, fetchCalls, fetchVars,
                 closes, openPages, pageFailures, startUrl, maxPages, last,
                 gotos>>
  /\ \/ \* puppeteer.launch throws
        /\ Throw("launch")
        /\ UNCHANGED <<launches, origin, visited, toVisit, crawlResult, pushed>>
     \/ /\ launches' = launches + 1
        /\ IF OriginOf(startUrl) = Null
           THEN \* new URL(startUrl) throws, the browser stays open
                /\ Throw("seed")
                /\ UNCHANGED <<origin, visited, toVisit, crawlResult, pushed>>
           ELSE /\ origin' = OriginOf(startUrl)
                /\ visited' = <<>>
                /\ toVisit' = <<startUrl>>
                /\ pushed' = <<startUrl>>
                /\ pc' = "crawl_loop"
                /\ UNCHANGED <<responses, failure, crawlResult>>

\* lines 49-100: one iteration of the while loop
CrawlStep ==
  /\ pc = "crawl_loop"
  /\ LoopGuard(toVisit, visited, maxPages)
  /\ UNCHANGED <<parked, chunkVars, extractVars, caller, site, handlerVars, crawlCalls, fetchCalls,
                 fetchVars, launches, closes, startUrl, maxPages, origin,
                 crawlResult>>
  /\ \E nUrl \in {normalizeUrl(Head(toVisit), origin)}, q \in {Shift(toVisit)} :
        IF Skip(nUrl, visited)
        THEN /\ toVisit' = q
             /\ last' = [outcome |-> "skip", uri |-> nUrl]
             /\ UNCHANGED <<visited, openPages, pageFailures, pc, responses,
                            failure, logVars>>
        ELSE \E out \in Outcomes :
             /\ last' = [outcome |-> out, uri |-> nUrl]
             /\ gotos' = IF out = "newPage" THEN gotos ELSE Append(gotos, nUrl)
             /\ pageFailures' = IF out = "ok" THEN pageFailures ELSE pageFailures + 1
             /\ openPages' = IF out \in {"goto", "close"} THEN openPages + 1 ELSE openPages
             /\ toVisit' = IF out \in {"ok", "close"}
                           THEN Call(LAMBDA links : Enqueue(links, origin, visited, q),
                                     ExtractLinks(site, nUrl))
                           ELSE q
             /\ pushed' = pushed \o SelectSeq(toVisit', LAMBDA u : u \notin Range(q))
             /\ IF out = "ok" \/ TryCovers(out)
                THEN /\ visited' = CASE out = "ok" -> SetAdd(visited, nUrl)
                                     [] out = "close" -> CatchCrawl(SetAdd(visited, nUrl), nUrl)
                                     [] OTHER -> CatchCrawl(visited, nUrl)
                     /\ UNCHANGED <<pc, responses, failure>>
                ELSE \* the exception leaves crawlWebsite
                     /\ visited' = IF out = "close" THEN SetAdd(visited, nUrl) ELSE visited
                     /\ Throw("page")

\* lines 102-104: the loop is over, close the browser and return visited
CrawlExit ==
  /\ pc = "crawl_loop"
  /\ ~LoopGuard(toVisit, visited, maxPages)
  /\ closes' = closes + 1
  /\ crawlResult' = visited
  /\ pc' = IF caller = "handler" THEN "fetch" ELSE "returned"
  /\ UNCHANGED <<parked, chunkVars, extractVars, logVars, caller, site, handlerVars, responses, failure, crawlCalls,
                 fetchCalls, fetchVars, launches, openPages, pageFailures,
                 startUrl, maxPages, origin, visited, toVisit, last>>

\* ------------------------------------------------------ fetchMultiplePages
\* [...new Set(urls)]
RECURSIVE Unique(_)
Unique(urls) ==
  IF urls = <<>> THEN <<>>
  ELSE LET init == Unique(SubSeq(urls, 1, Len(urls) - 1))
       IN SetAdd(init, urls[Len(urls)])

\* Math.ceil(n / d) for n > 0
CeilDiv(n, d) ==
  IF d > 0 THEN (n + d - 1) \div d
  ELSE IF d < 0 THEN 0 - (n \div (0 - d))
  ELSE "Infinity"

Max(a, b) == IF a > b THEN a ELSE b

\* String.prototype.substring(from, to) of a string of length len: where the
\* result starts in the string and how long it is
Substring(len, from, to) ==
  LET clamp(n) == Max(0, Min(n, len))
      s == Min(clamp(from), clamp(to))
      e == Max(clamp(from), clamp(to))
  IN [offset |-> s, length |-> e - s]

ChunkIndexOrdinal(at, n) == n

\* line 162: chunkIndex of the window at offset at, n documents pushed so far
ChunkIndex(at, n) == at

\* the words of the cleaned text of the page at url; every chunk of a page
\* holds them
PageText(url) ==
  IF url = A THEN <<"w", "e", "b", " ", "r", "e">> ELSE <<"w", "e", "b">>

\* lines 155-167: the document made of the window at offset at; pageContent
\* is kept as the words of the chunk, offset and length say where the chunk
\* lies in the cleaned text
ChunkDoc(url, len, at, n, c, o) ==
  LET chunk == Substring(len, at, at + c)
  IN [pageContent |-> PageText(url), source |-> url, chunkIndex |-> ChunkIndex(at, n), offset |-> chunk.offset,
      length |-> chunk.length, type |-> "web_content",
      totalChunks |-> CeilDiv(len, c - o)]

SubstantialFrom100(doc) == doc.length >= MinChunkLen

SubstantialFrom300(doc) == doc.length > 3 * MinChunkLen

\* line 156: chunk.length > 100
Substantial(doc) == doc.length > MinChunkLen

StepPlusOverlap(c, o) == c + o

\* line 154: i += chunkSize - overlap
Step(c, o) == c - o

\* lines 154-171: the documents pushed from offset at on, docs pushed before
RECURSIVE ChunkLoop(_, _, _, _, _, _)
ChunkLoop(url, len, at, docs, c, o) ==
  IF ~(at < len) THEN docs
  ELSE LET doc == ChunkDoc(url, len, at, Len(docs), c, o)
       IN ChunkLoop(url, len, at + Step(c, o),
                    IF Substantial(doc) THEN Append(docs, doc) ELSE docs, c, o)

\* lines 149-172: the documents made of one page
PageDocuments(url, len) ==
  IF len > MinPageLen THEN ChunkLoop(url, len, 0, <<>>, chunkSize, overlap) ELSE <<>>

\* lines 107-117
FetchLaunch ==
  /\ pc = "fetch"
  /\ fetchCalls' = fetchCalls + 1
  /\ UNCHANGED <<parked, chunkVars, extractVars, logVars, caller, site, handlerVars, crawlCalls, crawlVars, closes,
                 openPages, pageFailures, last>>
  /\ \/ /\ Throw("launch")
        /\ UNCHANGED <<launches, uniqueUrls, documents>>
     \/ /\ launches' = launches + 1
        /\ uniqueUrls' = Unique(crawlResult)
        /\ documents' = <<>>
        /\ pc' = "fetch_loop"
        /\ UNCHANGED <<responses, failure>>

\* lines 119-178: one iteration of the for loop
FetchStep ==
  /\ pc = "fetch_loop"
  /\ uniqueUrls # <<>>
  /\ LET url == Head(uniqueUrls)
     IN \E out \in Outcomes :
          /\ last' = [outcome |-> out, uri |-> url]
          /\ pageFailures' = IF out = "ok" THEN pageFailures ELSE pageFailures + 1
          /\ documents' = IF out \in {"ok", "close"}
                          THEN documents \o PageDocuments(url, CleanedLen(site, url))
                          ELSE documents
          /\ openPages' = IF out \in {"goto", "close"} THEN openPages + 1 ELSE openPages
          /\ IF out = "ok" \/ TryCovers(out)
             THEN UNCHANGED <<pc, responses, failure>>
             ELSE Throw("page")
  /\ uniqueUrls' = Tail(uniqueUrls)
  /\ UNCHANGED <<parked, chunkVars, extractVars, logVars, caller, site, handlerVars, crawlCalls, fetchCalls, crawlVars,
                 launches, closes>>

\* lines 180-182
FetchExit ==
  /\ pc = "fetch_loop"
  /\ uniqueUrls = <<>>
  /\ closes' = closes + 1
  /\ pc' = "gen2"
  /\ UNCHANGED <<parked, chunkVars, extractVars, logVars, caller, site, handlerVars, responses, failure, crawlCalls,
                 fetchCalls, crawlVars, fetchVars, launches, openPages,
                 pageFailures, last>>

\* ------------------------------------------------------ the text extraction
\* the page.evaluate callback of lines 125-145 and the cleaning of line 147.
\* A text is kept as the node it is the textContent of, its length and the
\* length of its trim(); NoElement is the null of querySelector.
selectors == <<"main", "article", ".content", "#content", ".main-content",
               "[role='main']">>

NoElement == [present |-> FALSE]

Text(node, raw, trimmed) == [of |-> node, raw |-> raw, trimmed |-> trimmed]

EmptyText == Text("none", 0, 0)

QualifiesUntrimmed(el) == el.present /\ el.text.raw > MinContentLen

\* line 139: element && element.textContent?.trim().length > 100
Qualifies(el) == el.present /\ el.text.trimmed > MinContentLen

\* lines 137-142: the loop over the selectors from the k-th on, then the
\* fallback of line 145
RECURSIVE SelectorLoop(_, _)
SelectorLoop(d, k) ==
  IF k > Len(selectors) THEN d.body
  ELSE IF Qualifies(d.elements[k]) THEN d.elements[k].text
  ELSE SelectorLoop(d, k + 1)

\* lines 125-145
ExtractText(d) == SelectorLoop(d, 1)

\* lines 125-147: evaluate the page, clean the text
EvaluatePage ==
  /\ pc = "extract"
  /\ pageText' = ExtractText(dom)
  /\ cleanedText' = pageText'.trimmed
  /\ pc' = "extracted"
  /\ UNCHANGED <<parked, logVars, dom, chunkConf, chunkI, windows, caller, site,
                 handlerVars, responses, failure, crawlCalls, fetchCalls,
                 crawlVars, fetchVars, launches, closes, openPages,
                 pageFailures, last>>

\* ----------------------------------------------------------- the chunk loop
\* the loop of lines 149-172 taken alone, one iteration at a time
\* line 149: cleanedText.length > 50
ChunkEnter ==
  /\ pc = "chunk"
  /\ pc' = IF cleanedText > MinPageLen THEN "chunk_loop" ELSE "chunked"
  /\ chunkI' = 0
  /\ UNCHANGED <<parked, logVars, extractVars, cleanedText, chunkConf, windows, caller, site, handlerVars,
                 responses, failure, crawlCalls, fetchCalls, crawlVars,
                 fetchVars, launches, closes, openPages, pageFailures, last>>

\* lines 154-171: one iteration
ChunkStep ==
  /\ pc = "chunk_loop"
  /\ chunkI < cleanedText
  /\ windows < MaxWindows
  /\ \E doc \in {ChunkDoc(startUrl, cleanedText, chunkI, Len(documents),
                          chunkConf[1], chunkConf[2])} :
       documents' = IF Substantial(doc) THEN Append(documents, doc) ELSE documents
  /\ chunkI' = chunkI + Step(chunkConf[1], chunkConf[2])
  /\ windows' = windows + 1
  /\ UNCHANGED <<parked, logVars, extractVars, cleanedText, chunkConf, caller, site, handlerVars, pc,
                 responses, failure, crawlCalls, fetchCalls, crawlVars,
                 uniqueUrls, launches, closes, openPages, pageFailures, last>>

\* line 154: i < cleanedText.length is false, the loop is over
ChunkExit ==
  /\ pc = "chunk_loop"
  /\ ~(chunkI < cleanedText)
  /\ pc' = "chunked"
  /\ UNCHANGED <<parked, chunkVars, extractVars, logVars, caller, site, handlerVars, responses, failure,
                 crawlCalls, fetchCalls, crawlVars, fetchVars, launches,
                 closes, openPages, pageFailures, last>>

\* ------------------------------------------------------------- the scorer
Whitespace == {" ", "\n"}

LowerChar(c) == CASE c = "R" -> "r" [] c = "E" -> "e" [] OTHER -> c

\* String.prototype.toLowerCase
ToLower(s) == [i \in 1..Len(s) |-> LowerChar(s[i])]

\* String.prototype.trim
RECURSIVE Trim(_)
Trim(s) ==
  IF s = <<>> THEN s
  ELSE IF s[1] \in Whitespace THEN Trim(Tail(s))
  ELSE IF s[Len(s)] \in Whitespace THEN Trim(SubSeq(s, 1, Len(s) - 1))
  ELSE s

\* s.replaceAll("\n", " ")
ReplaceNewlines(s) == [i \in 1..Len(s) |-> IF s[i] = "\n" THEN " " ELSE s[i]]

\* line 200
Sanitize(question) == ReplaceNewlines(Trim(question))

\* s.split(/\s+/)
RECURSIVE Split(_)
Split(s) ==
  IF \A i \in 1..Len(s) : s[i] \notin Whitespace THEN <<s>>
  ELSE LET i == CHOOSE k \in 1..Len(s) :
                  s[k] \in Whitespace /\ \A j \in 1..(k - 1) : s[j] \notin Whitespace
           j == IF \E k \in i..Len(s) : s[k] \notin Whitespace
                THEN CHOOSE k \in i..Len(s) :
                       s[k] \notin Whitespace /\ \A m \in i..(k - 1) : s[m] \in Whitespace
                ELSE Len(s) + 1
       IN <<SubSeq(s, 1, i - 1)>> \o Split(SubSeq(s, j, Len(s)))

ScoreCaseSensitive(sanitizedQuestion, pageContent) ==
  LET questionWords == Split(ToLower(sanitizedQuestion))
  IN Len(SelectSeq(questionWords,
                   LAMBDA w : Includes(pageContent, w) /\ Len(w) > MinWordLen))

\* lines 221-225: the score of a passage for the sanitized question
Score(sanitizedQuestion, pageContent) ==
  LET questionWords == Split(ToLower(sanitizedQuestion))
      content == ToLower(pageContent)
  IN Len(SelectSeq(questionWords,
                   LAMBDA w : Includes(content, w) /\ Len(w) > MinWordLen))

\* lines 220-227
ScoredDocs(sanitizedQuestion, docs) ==
  [n \in 1..Len(docs) |->
     [doc |-> docs[n], score |-> Score(sanitizedQuestion, docs[n].pageContent)]]

\* lines 229-231
Relevant(sanitizedQuestion, docs) ==
  SelectSeq(docs, LAMBDA d : Score(sanitizedQuestion, d.pageContent) > 0)

RECURSIVE combineDocumentsOneNewline(_)
combineDocumentsOneNewline(docs) ==
  IF docs = <<>> THEN <<>>
  ELSE IF Len(docs) = 1 THEN docs[1].pageContent
  ELSE docs[1].pageContent \o <<"\n">> \o combineDocumentsOneNewline(Tail(docs))

\* combineDocumentsFn of src/utils/makechain.ts, separator "\n\n"
RECURSIVE combineDocumentsFn(_)
combineDocumentsFn(docs) ==
  IF docs = <<>> THEN <<>>
  ELSE IF Len(docs) = 1 THEN docs[1].pageContent
  ELSE docs[1].pageContent \o <<"\n", "\n">> \o combineDocumentsFn(Tail(docs))

\* ------------------------------------------------------------ the handler
\* line 15
urlsToVisit == <<A>>

\* the passages of the index: every third one shares no word with a question
Doc(k) ==
  [id |-> k,
   pageContent |-> CASE k % 3 = 1 -> <<"a", " ", "r", "e">>
                     [] k % 3 = 2 -> <<"z", "z">>
                     [] OTHER -> <<"R", "e", "d">>]

\* what retriever.invoke may return: up to MaxDocs successive passages
IndexResults ==
  {[i \in 1..n |-> Doc(first + i - 1)] : first \in 1..2, n \in 0..MaxDocs}

Questions ==
  { <<"r", "e">>, <<" ", "R", "e", "\n", "r", "e", " ">>, <<"x", "y">>, <<"r">>, <<>> }

\* qKind "number" is a question that is truthy and not a string; qKind
\* "undefined" is a missing question; history "undefined" is a missing history
Requests ==
  [method : {"POST", "GET"}, qKind : {"string"}, question : Questions,
   history : {"array", "undefined"}]
  \cup [method : {"POST", "GET"}, qKind : {"undefined", "number"},
        question : {<<>>}, history : {"array", "undefined"}]

FalsyUndefinedOnly(r) == r.qKind = "undefined"

\* line 196: !question
Falsy(r) == r.qKind = "undefined" \/ (r.qKind = "string" /\ r.question = <<>>)

NeedsFallbackInverted(ans) == ans # <<>>

NeedsFallbackAlways(ans) == TRUE

NeedsFallbackNever(ans) == FALSE

\* line 269: !answer
NeedsFallback(ans) == ans = <<>>

SourceDocsAll(docs) == docs

\* line 301: relevantDocs.slice(0, 5)
SourceDocs(docs) == SubSeq(docs, 1, Min(SourceDocsLimit, Len(docs)))

\* lines 189-200: method and question checks
HandlerEntry ==
  /\ pc = "start"
  /\ IF req.method # "POST"
     THEN /\ responses' = Append(responses, Response(405, <<"Method not allowed">>, <<>>))
          /\ pc' = "done"
          /\ UNCHANGED failure
     ELSE IF Falsy(req)
     THEN /\ responses' = Append(responses, Response(400, <<"No question in the request">>, <<>>))
          /\ pc' = "done"
          /\ UNCHANGED failure
     ELSE IF req.qKind # "string"
     THEN \* question.trim is not a function: thrown outside the try block
          /\ failure' = "question"
          /\ pc' = "thrown"
          /\ UNCHANGED responses
     ELSE /\ pc' = "index"
          /\ UNCHANGED <<responses, failure>>
  /\ UNCHANGED <<parked, chunkVars, extractVars, logVars, caller, site, handlerVars, crawlCalls, fetchCalls, crawlVars,
                 fetchVars, launches, closes, openPages, pageFailures, last>>

\* lines 204-245: query the index, score, build the context and the history
IndexQuery ==
  /\ pc = "index"
  /\ UNCHANGED <<parked, chunkVars, extractVars, logVars, caller, site, req, genCalls, answer, webContext, crawlCalls, fetchCalls,
                 crawlVars, fetchVars, launches, closes, openPages,
                 pageFailures, last>>
  /\ \/ \* the index setup throws
        /\ Send500("index")
        /\ UNCHANGED <<indexQueries, scoredDocs, relevantDocs, contextText>>
     \/ \* retriever.invoke throws
        /\ Send500("index")
        /\ indexQueries' = indexQueries + 1
        /\ UNCHANGED <<scoredDocs, relevantDocs, contextText>>
     \/ \E pineconeDocs \in IndexResults :
          LET rel == Relevant(Sanitize(req.question), pineconeDocs)
              ctx == IF Len(rel) > 0 THEN combineDocumentsFn(rel) ELSE <<>>
          IN /\ indexQueries' = indexQueries + 1
             /\ scoredDocs' = ScoredDocs(Sanitize(req.question), pineconeDocs)
             /\ relevantDocs' = rel
             /\ contextText' = ctx
             /\ IF req.history # "array"
                THEN \* history.map throws
                     Send500("history")
                ELSE /\ pc' = "gen1"
                     /\ UNCHANGED <<responses, failure>>

\* lines 247-269: the answer from the index context, if there is a context
Generate1 ==
  /\ pc = "gen1"
  /\ UNCHANGED <<parked, chunkVars, extractVars, logVars, webContext, caller, site, req, indexQueries, scoredDocs, relevantDocs,
                 contextText,
                 crawlCalls, fetchCalls, crawlVars, fetchVars, launches, closes,
                 openPages, pageFailures, last>>
  /\ IF contextText = <<>>
     THEN /\ answer' = <<>>
          /\ pc' = IF NeedsFallback(<<>>) THEN "crawl" ELSE "respond"
          /\ UNCHANGED <<genCalls, responses, failure>>
     ELSE /\ genCalls' = genCalls + 1
          /\ \/ /\ Send500("generation")
                /\ UNCHANGED answer
             \/ \E raw \in {<<>>, <<"answer", "index">>} :
                  /\ answer' = raw
                  /\ pc' = IF NeedsFallback(raw) THEN "crawl" ELSE "respond"
                  /\ UNCHANGED <<responses, failure>>

\* lines 279-296: the answer from the web context
Generate2 ==
  /\ pc = "gen2"
  /\ genCalls' = genCalls + 1
  /\ webContext' = combineDocumentsFn(documents)
  /\ UNCHANGED <<parked, chunkVars, extractVars, logVars, caller, site, req, indexQueries, scoredDocs,
                 relevantDocs, contextText, crawlCalls, fetchCalls, crawlVars,
                 fetchVars, launches, closes, openPages, pageFailures, last>>
  /\ \/ /\ Send500("generation")
        /\ UNCHANGED answer
     \/ \E raw \in {<<>>, <<"answer", "web">>} :
          /\ answer' = raw
          /\ pc' = "respond"
          /\ UNCHANGED <<responses, failure>>

\* lines 299-302
Respond ==
  /\ pc = "respond"
  /\ responses' = Append(responses, Response(200, answer, SourceDocs(relevantDocs)))
  /\ pc' = "done"
  /\ UNCHANGED <<parked, chunkVars, extractVars, logVars, caller, site, handlerVars, failure, crawlCalls, fetchCalls,
                 crawlVars, fetchVars, launches, closes, openPages,
                 pageFailures, last>>

\* ---------------------------------------------------------- specification
Seeds == {A, A \o <<"/">>, A \o <<"/", "q", "/">>, <<"/", "p">>}

NoRequest == [method |-> "POST", qKind |-> "undefined", question |-> <<>>,
              history |-> "array"]

\* no chunk loop is being followed: the values of lines 151-152
ChunkIdle ==
  /\ cleanedText = 0
  /\ chunkConf = <<chunkSize, overlap>>
  /\ chunkI = 0
  /\ windows = 0

\* no page is being evaluated
ExtractIdle ==
  /\ dom = [elements |-> [k \in 1..Len(selectors) |-> NoElement], body |-> EmptyText]
  /\ pageText = EmptyText

\* a single request is in flight
Alone == [id |-> 0]

InitCommon ==
  /\ site \in Sites
  /\ parked = Alone
  /\ responses = <<>>
  /\ failure = "none"
  /\ indexQueries = 0
  /\ genCalls = 0
  /\ scoredDocs = <<>>
  /\ relevantDocs = <<>>
  /\ contextText = <<>>
  /\ answer = <<>>
  /\ webContext = <<>>
  /\ crawlCalls = 0
  /\ fetchCalls = 0
  /\ launches = 0
  /\ closes = 0
  /\ openPages = 0
  /\ pageFailures = 0
  /\ origin = Null
  /\ visited = <<>>
  /\ toVisit = <<>>
  /\ last = [outcome |-> "none", uri |-> Null]
  /\ crawlResult = <<>>
  /\ pushed = <<>>
  /\ gotos = <<>>
  /\ uniqueUrls = <<>>
  /\ documents = <<>>

\* a chat request arrives; the handler crawls urlsToVisit with budget 50
InitHandler ==
  /\ caller = "handler"
  /\ req \in Requests
  /\ pc = "start"
  /\ startUrl = urlsToVisit[1]
  /\ maxPages = HandlerMaxPages
  /\ InitCommon
  /\ ChunkIdle
  /\ ExtractIdle

\* crawlWebsite(startUrl, maxPages) is called on its own
InitDirect ==
  /\ caller = "direct"
  /\ req = NoRequest
  /\ pc = "crawl"
  /\ startUrl \in Seeds
  /\ maxPages \in 0..MaxBudget
  /\ InitCommon
  /\ ChunkIdle
  /\ ExtractIdle

Init == InitHandler \/ InitDirect

\* the lengths of cleaned text tried: around every multiple of 50
TextLens == {n \in 0..MaxTextLen : n % 50 \in {0, 1}}

\* the values of chunkSize and overlap tried: those of lines 151-152, a
\* smaller chunk size and other overlaps
ChunkSizes == {150, chunkSize}
Overlaps == {0, 100, 150, overlap}

\* the chunk loop is run on a cleaned text
InitChunk ==
  /\ caller = "chunker"
  /\ req = NoRequest
  /\ pc = "chunk"
  /\ startUrl = A
  /\ maxPages = 0
  /\ InitCommon
  /\ site = "plain"
  /\ cleanedText \in TextLens
  /\ chunkConf \in ChunkSizes \X Overlaps
  /\ chunkI = 0
  /\ windows = 0
  /\ ExtractIdle

NextCrawl == CrawlLaunch \/ CrawlStep \/ CrawlExit

Next ==
  \/ HandlerEntry
  \/ IndexQuery
  \/ Generate1
  \/ CrawlLaunch
  \/ CrawlStep
  \/ CrawlExit
  \/ FetchLaunch
  \/ FetchStep
  \/ FetchExit
  \/ Generate2
  \/ Respond

Spec == Init /\ [][Next]_vars

\* a direct crawl whose steps are always eventually taken: every await of
\* the loop settles (navigation is bounded by the 60 s navigation timeout)
CrawlSpec == InitDirect /\ [][NextCrawl]_vars /\ WF_vars(NextCrawl)

\* what querySelector(selectors[k]) may find: nothing, or an element whose
\* text is at the limit, above it, or above it only by surrounding blanks
Elements(k) ==
  {NoElement}
    \cup {[present |-> TRUE, text |-> Text(selectors[k], t[1], t[2])] :
            t \in {<<100, 100>>, <<101, 101>>, <<150, 100>>}}

\* a page is evaluated on its own
InitExtract ==
  /\ caller = "extractor"
  /\ req = NoRequest
  /\ pc = "extract"
  /\ startUrl = A
  /\ maxPages = 0
  /\ InitCommon
  /\ site = "plain"
  /\ ChunkIdle
  /\ dom \in [elements : {<<e1, e2, e3, e4, e5, e6>> :
                             e1 \in Elements(1), e2 \in Elements(2),
                             e3 \in Elements(3), e4 \in Elements(4),
                             e5 \in Elements(5), e6 \in Elements(6)},
               body : {EmptyText, Text("body", 400, 380)}]
  /\ pageText = EmptyText

ExtractSpec == InitExtract /\ [][EvaluatePage]_vars

\* ------------------------------------------------- two requests in flight
\* everything a request holds in the locals of handler, crawlWebsite and
\* fetchMultiplePages
OwnState ==
  [id |-> 3 - parked.id, req |-> req, pc |-> pc, responses |-> responses,
   failure |-> failure, indexQueries |-> indexQueries, genCalls |-> genCalls,
   scoredDocs |-> scoredDocs, relevantDocs |-> relevantDocs,
   contextText |-> contextText, answer |-> answer, webContext |-> webContext,
   crawlCalls |-> crawlCalls, fetchCalls |-> fetchCalls, launches |-> launches,
   closes |-> closes, openPages |-> openPages, pageFailures |-> pageFailures,
   startUrl |-> startUrl, maxPages |-> maxPages, origin |-> origin,
   visited |-> visited, toVisit |-> toVisit, last |-> last,
   crawlResult |-> crawlResult, pushed |-> pushed, gotos |-> gotos,
   uniqueUrls |-> uniqueUrls, documents |-> documents]

ResumedShared(own, running) == running

\* lines 26-27: visited and toVisit are declared inside crawlWebsite, so the
\* request that resumes finds its own, not those of the request that ran
Resumed(own, running) == own

\* the running request waits at an await and the other request runs on
Yield ==
  /\ parked # Alone
  /\ parked.pc # "done"
  /\ parked' = OwnState
  /\ req' = parked.req
  /\ pc' = parked.pc
  /\ responses' = parked.responses
  /\ failure' = parked.failure
  /\ indexQueries' = parked.indexQueries
  /\ genCalls' = parked.genCalls
  /\ scoredDocs' = parked.scoredDocs
  /\ relevantDocs' = parked.relevantDocs
  /\ contextText' = parked.contextText
  /\ answer' = parked.answer
  /\ webContext' = parked.webContext
  /\ crawlCalls' = parked.crawlCalls
  /\ fetchCalls' = parked.fetchCalls
  /\ launches' = parked.launches
  /\ closes' = parked.closes
  /\ openPages' = parked.openPages
  /\ pageFailures' = parked.pageFailures
  /\ startUrl' = parked.startUrl
  /\ maxPages' = parked.maxPages
  /\ origin' = parked.origin
  /\ visited' = Resumed(parked.visited, visited)
  /\ toVisit' = Resumed(parked.toVisit, toVisit)
  /\ last' = parked.last
  /\ crawlResult' = parked.crawlResult
  /\ pushed' = parked.pushed
  /\ gotos' = parked.gotos
  /\ uniqueUrls' = parked.uniqueUrls
  /\ documents' = parked.documents
  /\ UNCHANGED <<caller, site, chunkVars, extractVars>>

\* a request whose index stage is over: the index returned pineconeDocs, and
\* the first generation, if there was a context, gave no answer
FallbackStart(n, question, pineconeDocs) ==
  LET rel == Relevant(Sanitize(question), pineconeDocs)
  IN [id |-> n,
      req |-> [method |-> "POST", qKind |-> "string", question |-> question,
               history |-> "array"],
      pc |-> "crawl", responses |-> <<>>, failure |-> "none",
      indexQueries |-> 1, genCalls |-> IF rel = <<>> THEN 0 ELSE 1,
      scoredDocs |-> ScoredDocs(Sanitize(question), pineconeDocs),
      relevantDocs |-> rel,
      contextText |-> IF Len(rel) > 0 THEN combineDocumentsFn(rel) ELSE <<>>,
      answer |-> <<>>, webContext |-> <<>>, crawlCalls |-> 0, fetchCalls |-> 0,
      launches |-> 0, closes |-> 0, openPages |-> 0, pageFailures |-> 0,
      startUrl |-> urlsToVisit[1], maxPages |-> HandlerMaxPages, origin |-> Null,
      visited |-> <<>>, toVisit |-> <<>>,
      last |-> [outcome |-> "none", uri |-> Null], crawlResult |-> <<>>,
      pushed |-> <<>>, gotos |-> <<>>, uniqueUrls |-> <<>>, documents |-> <<>>]

FallbackStarts(n) ==
  {FallbackStart(n, <<"r", "e">>, [k \in 1..3 |-> Doc(k)]),
   FallbackStart(n, <<"x", "y">>, [k \in 1..2 |-> Doc(k)])}

\* two chat requests are in flight, both about to crawl
InitConc ==
  /\ caller = "handler"
  /\ site = "small"
  /\ parked \in FallbackStarts(2)
  /\ \E r \in {FallbackStart(1, <<"r", "e">>, [k \in 1..3 |-> Doc(k)])} :
       /\ req = r.req /\ pc = r.pc /\ responses = r.responses
       /\ failure = r.failure /\ indexQueries = r.indexQueries
       /\ genCalls = r.genCalls /\ scoredDocs = r.scoredDocs
       /\ relevantDocs = r.relevantDocs /\ contextText = r.contextText
       /\ answer = r.answer /\ webContext = r.webContext
       /\ crawlCalls = r.crawlCalls /\ fetchCalls = r.fetchCalls
       /\ launches = r.launches /\ closes = r.closes
       /\ openPages = r.openPages /\ pageFailures = r.pageFailures
       /\ startUrl = r.startUrl /\ maxPages = r.maxPages /\ origin = r.origin
       /\ visited = r.visited /\ toVisit = r.toVisit /\ last = r.last
       /\ crawlResult = r.crawlResult /\ pushed = r.pushed /\ gotos = r.gotos
       /\ uniqueUrls = r.uniqueUrls /\ documents = r.documents
  /\ ChunkIdle
  /\ ExtractIdle

NextConc ==
  \/ CrawlLaunch
  \/ CrawlStep
  \/ CrawlExit
  \/ FetchLaunch
  \/ FetchStep
  \/ FetchExit
  \/ Generate2
  \/ Respond
  \/ Yield

ConcSpec == InitConc /\ [][NextConc]_vars

NextChunk == ChunkEnter \/ ChunkStep \/ ChunkExit

ChunkSpec == InitChunk /\ [][NextChunk]_vars

\* ------------------------------------------------------------------ claims
\* the index results of the request have been scored
Scored == caller = "handler" /\ indexQueries > 0 /\ failure # "index"

ValidRequest == caller = "handler" /\ req.method = "POST" /\ req.qKind = "string"
                /\ req.question # <<>>

Sent(status) == \E i \in 1..Len(responses) : responses[i].status = status

\* C1: the visited set of crawlWebsite never holds more than maxPages
\* entries, and neither does the list it returns.
C1_VisitedWithinBudget ==
  /\ Len(visited) <= maxPages
  /\ Len(crawlResult) <= maxPages

\* the budget, not the queue, ended a direct crawl
C1_Witness ==
  /\ pc = "returned"
  /\ maxPages >= 2
  /\ Len(crawlResult) = maxPages
  /\ toVisit # <<>>

\* C2: every URI in the queue, in visited and in the returned list has the
\* origin (scheme and host) of the seed.
C2_SameOriginOnly ==
  origin # Null =>
    \A u \in Range(toVisit) \cup Range(visited) \cup Range(crawlResult) :
      OriginOf(u) = origin

\* C3 as stated: once the scored index results give an empty relevant set,
\* no response of any kind is sent before crawlWebsite and fetchMultiplePages
\* were called.
C3_CrawlBeforeAnyResponse ==
  (Scored /\ relevantDocs = <<>> /\ responses # <<>>)
    => (crawlCalls > 0 /\ fetchCalls > 0)

\* C3 amended: once the scored index results give an empty relevant set, no
\* 200 response is sent before crawlWebsite and fetchMultiplePages were
\* called, and no generation call was made for the index context.
C3_CrawlBefore200 ==
  (Scored /\ relevantDocs = <<>> /\ Sent(200))
    => (crawlCalls > 0 /\ fetchCalls > 0 /\ genCalls = 1)

\* index results that are not empty, none of them relevant, then a crawl
\* and a 200 response
C3_Witness ==
  /\ Scored
  /\ relevantDocs = <<>>
  /\ req.question = <<"x", "y">>
  /\ Sent(200)
  /\ crawlCalls = 1
  /\ fetchCalls = 1

\* C4 as stated: when the relevant set is not empty, crawlWebsite is never
\* called, whatever the generation service returns.
C4_NeverCrawlWhenRelevant ==
  (Scored /\ relevantDocs # <<>>) => crawlCalls = 0

\* C4 amended: when the relevant set is not empty and the generation service
\* returned a non-empty answer for the index context, crawlWebsite is never
\* called; it is called only after an empty first answer.
C4_NoCrawlWhenAnswered ==
  /\ (Scored /\ relevantDocs # <<>> /\ genCalls = 1 /\ answer # <<>>)
       => (crawlCalls = 0 /\ fetchCalls = 0)
  /\ (Scored /\ relevantDocs # <<>> /\ crawlCalls > 0)
       => (genCalls >= 1 /\ (genCalls = 1 => answer = <<>>))

\* a relevant passage, a non-empty first answer, a 200 response, no crawl
C4_Witness ==
  /\ Scored
  /\ relevantDocs # <<>>
  /\ answer = <<"answer", "index">>
  /\ Sent(200)
  /\ crawlCalls = 0

\* C5: a 200 response carries the first min(5, n) passages of the relevant
\* set of n passages, in their order, and never more than 5.
C5_TopFiveSources ==
  \A i \in 1..Len(responses) :
    responses[i].status = 200 =>
      LET sd == responses[i].sourceDocuments
          n == Len(relevantDocs)
      IN /\ Len(sd) <= 5
         /\ Len(sd) = (IF n < 5 THEN n ELSE 5)
         /\ \A k \in 1..Len(sd) : sd[k] = relevantDocs[k]
         /\ \A k \in 1..n : Score(Sanitize(req.question), relevantDocs[k].pageContent) > 0

\* more than five relevant passages, five returned
C5_Witness ==
  /\ Sent(200)
  /\ Len(relevantDocs) > 5
  /\ Len(responses[1].sourceDocuments) = 5

\* C6: a request that is not a POST gets 405, a POST without question gets
\* 400, and neither queries the index, crawls, launches a browser or calls
\* the generation service.
C6_InvalidRequestNoSideEffects ==
  (caller = "handler" /\ (req.method # "POST" \/ req.qKind = "undefined"
                          \/ (req.qKind = "string" /\ req.question = <<>>)))
    => /\ indexQueries = 0 /\ genCalls = 0 /\ crawlCalls = 0
       /\ fetchCalls = 0 /\ launches = 0
       /\ pc \in {"start", "done"}
       /\ pc = "done" =>
            /\ Len(responses) = 1
            /\ responses[1].status = (IF req.method # "POST" THEN 405 ELSE 400)

\* a POST with an empty question was answered 400
C6_Witness ==
  /\ caller = "handler"
  /\ pc = "done"
  /\ req.method = "POST"
  /\ req.qKind = "string"
  /\ req.question = <<>>
  /\ responses[1].status = 400

\* C7: when a stage of a valid request throws, exactly one response is
\* sent, it is a 500 with an error message, and it carries neither the
\* answer text nor source documents; no 200 is sent.
C7_StageFailureGives500 ==
  (ValidRequest /\ failure # "none")
    => /\ pc = "done"
       /\ Len(responses) = 1
       /\ responses[1].status = 500
       /\ responses[1].text = <<"error">>
       /\ responses[1].sourceDocuments = <<>>

\* the second generation call failed after the index gave relevant
\* passages and the crawl and the page fetch had run
C7_Witness ==
  /\ ValidRequest
  /\ failure = "generation"
  /\ relevantDocs # <<>>
  /\ fetchCalls = 1
  /\ Sent(500)

\* C8: a per-page step of crawlWebsite that fails adds the page's
\* normalized URI to visited, stays in the loop and keeps the rest of the
\* queue.
C8_FailedPageMarkedVisited ==
  [][(pc = "crawl_loop" /\ pageFailures' > pageFailures)
       => /\ last'.uri = normalizeUrl(Head(toVisit), origin)
          /\ last'.uri \in Range(visited')
          /\ pc' = "crawl_loop"
          /\ responses' = responses
          /\ StartsWith(toVisit', Tail(toVisit))]_vars

\* a page failed, it is in visited, and a later page was crawled
C8_Witness ==
  /\ pc = "crawl_loop"
  /\ pageFailures > 0
  /\ last.outcome = "ok"
  /\ Len(visited) >= 2
  /\ toVisit # <<>>

\* C9: a valid request in which the index, the generation service, the
\* browser launch and the history conversion do not throw ends in a single
\* 200 response, however many pages failed.
C9_PageFailuresAbsorbed ==
  (ValidRequest /\ pc \in {"done", "thrown"}
     /\ failure \notin {"index", "generation", "launch", "history"})
    => /\ pc = "done"
       /\ Len(responses) = 1
       /\ responses[1].status = 200

\* pages failed during the crawl and the fetch, the response is 200
C9_Witness ==
  /\ ValidRequest
  /\ pc = "done"
  /\ Sent(200)
  /\ pageFailures >= 2
  /\ fetchCalls = 1

\* C10: a crawl terminates, and when its loop exits the queue is empty or
\* visited has exactly maxPages entries.
C10_CrawlTerminates ==
  /\ <>(pc \in {"returned", "thrown"})
  /\ [][(pc = "crawl_loop" /\ pc' # "crawl_loop")
          => (toVisit = <<>> \/ Len(visited) = maxPages)]_vars

\* the queue ran empty before the budget was used up
C10_Witness ==
  /\ pc = "returned"
  /\ toVisit = <<>>
  /\ Len(crawlResult) >= 2
  /\ Len(crawlResult) < maxPages

\* the page a URI stands for: the URI normalized until nothing changes
RECURSIVE PageOf(_, _)
PageOf(u, o) ==
  Call(LAMBDA n : IF n = u \/ n = Null THEN n ELSE PageOf(n, o), normalizeUrl(u, o))

\* the pages of the seed's origin that the anchors of page p lead to
LinkedPages(st, o, p) ==
  {n \in {PageOf(l, o) : l \in Range(ExtractLinks(st, p))} :
     n # Null /\ OriginOf(n) = o}

\* the pages of the seed's origin reachable from the pages in S
RECURSIVE Reachable(_, _, _)
Reachable(st, o, S) ==
  Call(LAMBDA T : IF T = S THEN S ELSE Reachable(st, o, T),
       S \cup UNION {LinkedPages(st, o, p) : p \in S})

\* C11: when no page fails and at least maxPages distinct pages of the
\* seed's origin are reachable from the seed, crawlWebsite returns exactly
\* maxPages URIs.
C11_ExactlyBudget ==
  (pc = "returned" /\ pageFailures = 0
     /\ Cardinality(Reachable(site, origin, {PageOf(startUrl, origin)})) >= maxPages)
    => Len(crawlResult) = maxPages

\* budget 3 on a site with five reachable pages of the seed's origin
C11_Witness ==
  /\ pc = "returned"
  /\ pageFailures = 0
  /\ site = "plain"
  /\ maxPages = 3
  /\ Cardinality(Reachable(site, origin, {PageOf(startUrl, origin)})) = 5
  /\ Len(crawlResult) = 3

\* C12: every browser launched by crawlWebsite or fetchMultiplePages has been
\* closed when the function is left, by return or by exception.
C12_BrowserAlwaysClosed ==
  pc \in {"returned", "thrown", "gen2", "done"} => closes = launches

\* C13: the page opened for a URI is closed before the next URI is processed,
\* also when its navigation or extraction failed: after such a step no page
\* is left open.
C13_PageClosedAfterFailure ==
  last.outcome = "goto" => openPages = 0

\* the chunk loop runs with the values of lines 151-152
CodeConf == chunkConf = <<chunkSize, overlap>>

ChunkLoopEntered == caller = "chunker" /\ pc \in {"chunk_loop", "chunked"}

\* C14: the k-th window the chunk loop considers starts at offset k * 800 and
\* has length min(chunkSize, text length - offset); the chunkIndex of every
\* emitted chunk is the offset where its content starts in the cleaned text,
\* and the chunkIndex values of one page strictly increase.
C14_WindowOffsets ==
  (ChunkLoopEntered /\ CodeConf) =>
    /\ chunkI = windows * 800
    /\ chunkI < cleanedText =>
         Substring(cleanedText, chunkI, chunkI + chunkSize).length
           = Min(chunkSize, cleanedText - chunkI)
    /\ \A n \in 1..Len(documents) :
         /\ documents[n].chunkIndex = documents[n].offset
         /\ documents[n].chunkIndex % 800 = 0
         /\ documents[n].length = Min(chunkSize, cleanedText - documents[n].offset)
         /\ \A m \in 1..(n - 1) : documents[m].chunkIndex < documents[n].chunkIndex

\* a text of 1801 characters: windows at 0, 800 and 1600, all emitted
C14_Witness ==
  /\ ChunkLoopEntered /\ CodeConf /\ pc = "chunked"
  /\ cleanedText = 1801 /\ windows = 3
  /\ [n \in 1..Len(documents) |-> documents[n].chunkIndex] = <<0, 800, 1600>>
  /\ documents[3].length = 201

\* C15: no emitted chunk has 100 characters or fewer, nor more than
\* chunkSize; a cleaned text of length 50 yields no chunk.
C15_ChunkLengths ==
  caller = "chunker" =>
    /\ \A n \in 1..Len(documents) :
         documents[n].length > 100 /\ documents[n].length <= chunkConf[1]
    /\ (pc = "chunked" /\ cleanedText = 50) => documents = <<>>

\* a text of 900 characters: the window at 800 has exactly 100 characters
\* and is dropped
C15_Witness ==
  /\ caller = "chunker" /\ pc = "chunked" /\ CodeConf
  /\ cleanedText = 900 /\ windows = 2
  /\ Len(documents) = 1 /\ documents[1].length = 900

\* C16: for every chunk size c and overlap o with 0 <= o < c the emitted
\* chunks start at strictly increasing offsets and leave no gap: the first
\* starts at 0 and each next one starts inside or right after the one before,
\* so every position up to the end of the last emitted chunk is covered.
C16_GapFree ==
  (caller = "chunker" /\ 0 <= chunkConf[2] /\ chunkConf[2] < chunkConf[1]) =>
    \A n \in 1..Len(documents) :
      IF n = 1 THEN documents[n].offset = 0
      ELSE /\ documents[n - 1].offset < documents[n].offset
           /\ documents[n].offset <= documents[n - 1].offset + documents[n - 1].length
           /\ documents[n - 1].offset + documents[n - 1].length
                <= documents[n].offset + documents[n].length

\* chunk size 150, overlap 100, 301 characters: five chunks, then two short
\* windows dropped
C16_Witness ==
  /\ caller = "chunker" /\ pc = "chunked" /\ chunkConf = <<150, 100>>
  /\ cleanedText = 301 /\ windows = 7
  /\ [n \in 1..Len(documents) |-> documents[n].offset] = <<0, 50, 100, 150, 200>>

DistinctHits(question, pageContent) ==
  {w \in Range(Split(ToLower(question))) :
     Len(w) > MinWordLen /\ Includes(ToLower(pageContent), w)}

\* C18: the score of a passage is the number of distinct question tokens,
\* longer than the minimum length, that occur in the lowercased passage; a
\* token repeated in the question counts once.
C18_ScoreCountsDistinctTokens ==
  \A n \in 1..Len(scoredDocs) :
    scoredDocs[n].score
      = Cardinality(DistinctHits(Sanitize(req.question), scoredDocs[n].doc.pageContent))

\* C19: the scorer is case-insensitive: the score the handler gave to a
\* passage equals the score of the lowercased question on it and the score of
\* the question on the lowercased passage (the score depends on nothing but
\* the pair).
C19_CaseInsensitive ==
  \A n \in 1..Len(scoredDocs) :
    LET q == Sanitize(req.question)
        p == scoredDocs[n].doc.pageContent
    IN /\ scoredDocs[n].score = Score(ToLower(q), p)
       /\ scoredDocs[n].score = Score(q, ToLower(p))

\* a question and a passage that both hold capitals, with a positive score
C19_Witness ==
  /\ req.question = <<" ", "R", "e", "\n", "r", "e", " ">>
  /\ \E n \in 1..Len(scoredDocs) :
       /\ scoredDocs[n].doc.pageContent = <<"R", "e", "d">>
       /\ scoredDocs[n].score = 2

\* where the content of the k-th passage begins in the passages' contents
\* joined by a separator of two characters
RECURSIVE StartOf(_, _)
StartOf(docs, k) ==
  IF k = 1 THEN 1 ELSE StartOf(docs, k - 1) + Len(docs[k - 1].pageContent) + 2

\* C20: when the index returns exactly one passage and it scores above 0, the
\* context string equals that passage's content; in general the context is
\* the contents of the relevant passages, in order, joined by "\n\n".
C20_ContextIsJoinedContents ==
  /\ (Len(scoredDocs) = 1 /\ scoredDocs[1].score > 0)
       => contextText = scoredDocs[1].doc.pageContent
  /\ LET n == Len(relevantDocs)
     IN /\ Len(contextText) = IF n = 0 THEN 0
                              ELSE StartOf(relevantDocs, n) + Len(relevantDocs[n].pageContent) - 1
        /\ \A k \in 1..n :
             LET from == StartOf(relevantDocs, k)
                 to == from + Len(relevantDocs[k].pageContent) - 1
             IN /\ SubSeq(contextText, from, to) = relevantDocs[k].pageContent
                /\ k < n => SubSeq(contextText, to + 1, to + 2) = <<"\n", "\n">>

\* the index returned the single passage "a re" for the question "re"
C20_Witness ==
  /\ req.question = <<"r", "e">>
  /\ Len(scoredDocs) = 1 /\ scoredDocs[1].score = 1
  /\ contextText = <<"a", " ", "r", "e">>

\* C21: between per-page steps of crawlWebsite the queue holds only
\* discovered-but-unvisited URIs, each at most once: no URI of the queue is
\* in visited and no URI occurs twice in the queue.
C21_QueueUnvisitedOnce ==
  pc = "crawl_loop" =>
    /\ \A k \in 1..Len(toVisit) : toVisit[k] \notin Range(visited)
    /\ \A k, m \in 1..Len(toVisit) : toVisit[k] = toVisit[m] => k = m

\* C22: every URI in the queue or in visited of crawlWebsite is in normalized
\* form: it has no fragment and normalizeUrl returns it unchanged.
C22_FrontierNormalized ==
  pc = "crawl_loop" =>
    \A u \in Range(toVisit) \cup Range(visited) :
      /\ "#" \notin Range(u)
      /\ normalizeUrl(u, origin) = u

\* the fallback prompt of the request has been composed
FallbackComposed ==
  caller = "handler" /\ fetchCalls > 0 /\ pc \in {"respond", "done"}
    /\ failure \in {"none", "generation"}

\* C23: in the fallback the relevance filter is applied again: the web
\* context handed to answer composition is made of the crawled chunks that
\* score above 0 for the question, and of no other chunk.
C23_FallbackContextFiltered ==
  FallbackComposed =>
    webContext = combineDocumentsFn(Relevant(Sanitize(req.question), documents))

\* the context of the prompt that produced the returned answer
AnswerContext == IF fetchCalls > 0 THEN webContext ELSE contextText

\* C29: in every 200 response each returned sourceDocument was part of the
\* context of the prompt that produced the returned answer text.
C29_SourcesFromAnswerContext ==
  (caller = "handler" /\ pc = "done") =>
    \A k \in 1..Len(responses) :
      responses[k].status = 200 =>
        \A n \in 1..Len(responses[k].sourceDocuments) :
          Includes(AnswerContext, responses[k].sourceDocuments[n].pageContent)

\* C24: the vector index is queried first and at most once per request: the
\* crawler is started only after the one index query has returned and its
\* results have been scored, and every answered request has queried it once.
C24_IndexQueriedFirstOnce ==
  caller = "handler" =>
    /\ indexQueries <= 1
    /\ crawlCalls > 0 =>
         /\ indexQueries = 1
         /\ failure \notin {"index", "history"}
         /\ relevantDocs = Relevant(Sanitize(req.question),
                                    [n \in 1..Len(scoredDocs) |-> scoredDocs[n].doc])
    /\ Sent(200) => indexQueries = 1

\* the crawl runs after an index query that returned passages, two of them
\* relevant
C24_Witness ==
  /\ caller = "handler" /\ pc = "crawl_loop" /\ crawlCalls = 1
  /\ indexQueries = 1 /\ Len(scoredDocs) = 3 /\ Len(relevantDocs) = 2

\* position at which the URI u was first put into the queue (as an entry that
\* normalizes to u)
FirstPushed(u) ==
  CHOOSE k \in 1..Len(pushed) :
    /\ normalizeUrl(pushed[k], origin) = u
    /\ \A j \in 1..(k - 1) : normalizeUrl(pushed[j], origin) # u

\* C25: crawlWebsite is breadth-first: every fetched URI was enqueued, and
\* the pages are fetched in the order in which their URIs were first enqueued.
C25_FetchedInEnqueueOrder ==
  pc \in {"crawl_loop", "returned", "fetch"} =>
    /\ \A n \in 1..Len(gotos) :
         \E k \in 1..Len(pushed) : normalizeUrl(pushed[k], origin) = gotos[n]
    /\ \A m, n \in 1..Len(gotos) :
         m < n => FirstPushed(gotos[m]) < FirstPushed(gotos[n])

\* the start page, then /p and /q in the order the start page lists them,
\* while /r and /s, found on /p and /q, wait
C25_Witness ==
  /\ site = "plain" /\ pc = "crawl_loop"
  /\ gotos = <<A, A \o <<"/", "p">>, A \o <<"/", "q">>>>
  /\ Len(toVisit) >= 2
  /\ \A k \in 1..Len(toVisit) : FirstPushed(normalizeUrl(toVisit[k], origin)) > 3

\* C28: within one crawlWebsite run no normalized URI is given to page.goto
\* more than once, whatever the links and whichever pages fail.
C28_NoRepeatedNavigation ==
  \A m, n \in 1..Len(gotos) : gotos[m] = gotos[n] => m = n

\* the start page links to itself and /p and /q link back to each other; a
\* page has failed; the queued self-link of the start page is skipped
C28_Witness ==
  /\ site = "plain" /\ pc = "crawl_loop"
  /\ gotos = <<A, A \o <<"/", "p">>, A \o <<"/", "q">>>>
  /\ pageFailures = 1
  /\ last = [outcome |-> "skip", uri |-> A]

\* C30: for every request, whatever its method and body, the chat handler
\* sends exactly one response: never two, and one by the time it is over.
C30_ExactlyOneResponse ==
  caller = "handler" =>
    /\ Len(responses) <= 1
    /\ pc \in {"done", "thrown"} => Len(responses) = 1

\* the selectors whose element exists with a trimmed text longer than 100
QualifyingSelectors ==
  {k \in 1..Len(selectors) :
     dom.elements[k].present /\ dom.elements[k].text.trimmed > 100}

\* C26: the text extractor returns the text of the first selector, in the
\* listed order, whose element exists and whose trimmed text is longer than
\* 100 characters; if no selector qualifies it returns the body text.
C26_FirstQualifyingSelector ==
  (caller = "extractor" /\ pc = "extracted") =>
    IF QualifyingSelectors = {} THEN pageText = dom.body
    ELSE \E k \in QualifyingSelectors :
           /\ \A j \in QualifyingSelectors : k <= j
           /\ pageText = dom.elements[k].text

\* no main element, an article of 150 characters that trims to 100, then a
\* .content element of 101 characters, which is returned although #content
\* qualifies too
C26_Witness ==
  /\ caller = "extractor" /\ pc = "extracted"
  /\ ~dom.elements[1].present
  /\ dom.elements[2].present /\ dom.elements[2].text.raw = 150
  /\ QualifyingSelectors = {3, 4}
  /\ pageText = Text(".content", 101, 101)
  /\ cleanedText = 101

\* the documents fetchMultiplePages makes of the pages at urls when no page
\* fails
RECURSIVE DocumentsOf(_, _)
DocumentsOf(st, urls) ==
  IF urls = <<>> THEN <<>>
  ELSE PageDocuments(Head(urls), CleanedLen(st, Head(urls)))
         \o DocumentsOf(st, Tail(urls))

\* what the request with own state r has when it ran with no page failure
\* and nothing interfered: the whole site crawled (the budget of 50 is not
\* reached), the chunks of those pages, the sources of its own index result
AsIfAlone(r) ==
  (r.pc = "done" /\ r.pageFailures = 0 /\ r.failure = "none") =>
    /\ Range(r.crawlResult)
         = Reachable(site, r.origin, {PageOf(r.startUrl, r.origin)})
    /\ r.documents = DocumentsOf(site, r.crawlResult)
    /\ r.gotos = r.crawlResult
    /\ r.webContext = combineDocumentsFn(r.documents)
    /\ Len(r.responses) = 1
    /\ r.responses[1].sourceDocuments
         = SourceDocs(Relevant(Sanitize(r.req.question),
                               [n \in 1..Len(r.scoredDocs) |-> r.scoredDocs[n].doc]))

\* the locals the claim names: crawl frontier, chunk list, relevant set
Private(r) == <<r.visited, r.toVisit, r.documents, r.relevantDocs>>

\* C27: under any interleaving of two concurrent chat requests each request's
\* crawl frontier, chunk list and relevant set are changed only by its own
\* steps (a step of the running request leaves those of the waiting request
\* as they are, and a request resumes with what it had when it began to
\* wait), and the result of each request is what it is when run alone.
C27_RequestsIsolated ==
  [][ /\ parked'.id = parked.id => Private(parked') = Private(parked)
      /\ parked'.id # parked.id =>
           /\ Private(OwnState') = Private(parked)
           /\ Private(parked') = Private(OwnState)
      /\ AsIfAlone(OwnState')
      /\ AsIfAlone(parked') ]_vars

\* request 1 waits in the middle of its crawl, one page visited, while
\* request 2, which started later, has crawled the site and fetches its pages
C27_Witness ==
  /\ parked # Alone /\ parked.id = 1
  /\ parked.pc = "crawl_loop" /\ Len(parked.visited) = 1 /\ parked.toVisit # <<>>
  /\ pc = "fetch_loop" /\ Len(visited) = 2 /\ Len(documents) >= 2

\* the crawl and the page extraction of the request are over: both loops
\* have ended and both browsers were closed
FallbackFinished ==
  /\ crawlCalls > 0 /\ fetchCalls > 0
  /\ ~LoopGuard(toVisit, visited, maxPages)
  /\ crawlResult = visited
  /\ uniqueUrls = <<>>
  /\ closes = 2

\* C31: in one chat request the generation service is invoked at least once
\* and at most twice before a 200 response; after a non-empty answer for the
\* index context it is never invoked again, and a second invocation is made
\* only when the crawl and the page extraction have finished.
C31_GenerationCalls ==
  /\ [](genCalls <= 2 /\ (Sent(200) => genCalls \in 1..2))
  /\ [][ /\ (genCalls = 1 /\ crawlCalls = 0 /\ answer # <<>>) => genCalls' = 1
         /\ (genCalls = 1 /\ genCalls' # genCalls) =>
              (genCalls' = 2 /\ FallbackFinished /\ answer = <<>>) ]_vars

\* an empty answer for the index context, a crawl, an extraction, a second
\* answer and a 200 response
C31_Witness ==
  /\ ValidRequest /\ Sent(200)
  /\ contextText # <<>>
  /\ genCalls = 2
  /\ FallbackFinished
  /\ answer = <<"answer", "web">>

\* the character position p of the cleaned text lies in an emitted chunk
Covered(p) ==
  \E n \in 1..Len(documents) :
    documents[n].offset <= p /\ p < documents[n].offset + documents[n].length

\* C32: with chunkSize 1000 and overlap 200 no text of a page whose cleaned
\* text is longer than 100 characters is lost: once the loop is over every
\* character position lies in an emitted chunk, and while it runs the
\* chunks emitted so far cover the text up to the overlap past the next
\* window's start, so a dropped tail window lies inside the chunk before it.
C32_NoTextLost ==
  (ChunkLoopEntered /\ CodeConf /\ cleanedText > 100) =>
    /\ pc = "chunked" => \A p \in 0..(cleanedText - 1) : Covered(p)
    /\ windows > 0 =>
         \A p \in 0..(Min(cleanedText, chunkI + overlap) - 1) : Covered(p)

\* a text of 1700 characters: chunks at 0 and 800, the window at 1600 has
\* 100 characters and is dropped, its text lies in the chunk at 800
C32_Witness ==
  /\ ChunkLoopEntered /\ CodeConf /\ pc = "chunked"
  /\ cleanedText = 1700 /\ windows = 3
  /\ [n \in 1..Len(documents) |-> documents[n].offset] = <<0, 800>>
  /\ documents[2].offset + documents[2].length = 1700

\* C33: the totalChunks of every chunk of a page is the number of chunks
\* emitted for that page.
C33_TotalChunksIsEmittedCount ==
  (ChunkLoopEntered /\ CodeConf /\ pc = "chunked") =>
    \A n \in 1..Len(documents) : documents[n].totalChunks = Len(documents)

====
